---------------------------- MODULE Spec2Model ----------------------------
(***************************************************************************)
(* A model of the Oat tracking stages: the cooperative run loop shared by  *)
(* posidet, posicom and decorate, the DifferenceDetector2D detector, the   *)
(* BackgroundSubtractor filter and the MeanPosition combiner.  Each stage  *)
(* is a process of its own, so each has a specification of its own over    *)
(* the variables it uses; the others stay at their initial values.         *)
(***************************************************************************)
EXTENDS Integers, Sequences, FiniteSets, TLC

VARIABLES
    \* ---- main.cpp of a stage: the run loop and the signal flag
    stage,            \* which executable runs: "posidet", "posicom", "decorate"
    pc,               \* position of main()/run()
    quit,             \* volatile sig_atomic_t quit
    source_eof,       \* volatile sig_atomic_t source_eof
    ret,              \* the value the per-iteration call in flight will return
    exit_code,        \* <<c>> once main has returned c, <<>> before
    \* ---- bookkeeping of the run (not program state)
    begun,            \* iterations begun
    completed,        \* iterations that returned to the loop
    exhaustedAt,      \* index of the first acquisition that reported exhaustion, 0 if none
    quitAtEntry,      \* value of quit when run() was entered
    begunAfterQuit,   \* iterations begun while quit was already set
    \* ---- posidet: the command line, the configuration file, the exception in flight
    args,             \* what the command line holds, as main's checks see it
    constructed,      \* the stage object has been constructed
    reported,         \* an error message has been written
    config_used,      \* bool config_used
    config,           \* what cpptoml::parse_file finds in the configuration file
    thrown,           \* the exception propagating to main's handlers, "none" if none
    \* ---- DifferenceDetector2D
    frame,            \* the frame last handed to detectPosition
    prev_frame,       \* the frame handed to the call before that (bookkeeping)
    last_image_set,
    last_image,
    threshold_image,
    object_position,  \* oat::Position2D, coordinates in half pixels
    difference_intensity_threshold,
    blur_on,
    blur_size,        \* cv::Size
    tuning_on,
    tuning_windows_created,
    \* ---- a second detector, alike but for its threshold, fed the same frames
    other_threshold,  \* its difference_intensity_threshold
    other_mask,       \* its threshold_image
    \* ---- BackgroundSubtractor
    bg_config,        \* what configure finds in the configuration file
    background_set,
    background_img,
    filtered,         \* the frame filter() returned last
    first_frame,      \* the first frame ever passed to filter (bookkeeping)
    first_unset,      \* no background was set when that frame came (bookkeeping)
    \* ---- posicom: the command line and MeanPosition
    positional,       \* number of positional SOURCES arguments
    sink_given,       \* an explicit --sink option
    n_sources,        \* sources.size() handed to MeanPosition
    source_positions, \* the Position2D read from each source in this tick
    combined_position \* the Position2D published

runVars == <<stage, pc, quit, source_eof, ret, exit_code,
             begun, completed, exhaustedAt, quitAtEntry, begunAfterQuit>>

cfgVars == <<args, constructed, reported, config_used, config>>

detVars == <<frame, prev_frame, last_image_set, last_image, threshold_image, object_position,
             difference_intensity_threshold, blur_on, blur_size,
             tuning_on, tuning_windows_created>>

maskVars == <<other_threshold, other_mask>>

bgVars == <<bg_config, background_set, background_img, filtered, first_frame, first_unset>>

meanVars == <<positional, sink_given, n_sources, source_positions, combined_position>>

otherVars == <<maskVars, bgVars, meanVars>>

notRunVars == <<cfgVars, thrown, detVars, otherVars>>

vars == <<runVars, notRunVars>>

\* The longest run of the loop the model follows: the source is exhausted
\* by its MaxIter-th acquisition at the latest.
MaxIter == 4

Stages == {"posidet", "posicom", "decorate"}

-----------------------------------------------------------------------------
(***************************************************************************)
(* Images.  A cv::Mat is a record: its channel count (0 for an empty Mat)  *)
(* and its pixels, a function on the pixel grid; a pixel of a 3-channel    *)
(* Mat is a <<B, G, R>> triple, of a 1-channel Mat a number in 0..255.     *)
(***************************************************************************)

\* The frames of the model are Width x Height pixels.
Width == 2
Height == 2

Pix == (0 .. Width - 1) \X (0 .. Height - 1)

EmptyMat == [channels |-> 0, data |-> <<>>]

Black   == <<0, 0, 0>>
DimBlue == <<1, 0, 0>>
Grey    == <<60, 60, 60>>
White   == <<255, 255, 255>>

\* The frames a source delivers (3 channels): flat black, grey or white, one
\* grey or white pixel on black, or one faint pixel on black at the origin;
\* and a camera delivering 1-channel frames.
FlatFrame(c) == [channels |-> 3, data |-> [p \in Pix |-> c]]

PointFrame(q, c) ==
    [channels |-> 3, data |-> [p \in Pix |-> IF p = q THEN c ELSE Black]]

ColourFrames ==
    {FlatFrame(c) : c \in {Black, Grey, White}} \cup
    {PointFrame(q, c) : q \in Pix, c \in {Grey, White}} \cup
    {PointFrame(<<0, 0>>, DimBlue)}

MonoFrames == {[channels |-> 1, data |-> [p \in Pix |-> 60]]}

\* The frames the camera of posidet delivers in the detector runs.
SceneFrames ==
    {FlatFrame(c) : c \in {Black, Grey, White}} \cup
    {PointFrame(q, Grey) : q \in Pix} \cup
    {PointFrame(<<0, 0>>, c) : c \in {White, DimBlue}}

Frames == SceneFrames \cup MonoFrames

Abs(n) == IF n < 0 THEN -n ELSE n

\* cv::cvtColor(src, dst, cv::COLOR_BGR2GRAY) on 8-bit pixels: fixed-point
\* weights of B, G, R with 14 fractional bits, rounded.
GrayOfPixel(c) == (c[1] * 1868 + c[2] * 9617 + c[3] * 4899 + 8192) \div 16384

\* cvtColor throws cv::Exception unless the source has 3 (or 4) channels.
CanConvert(m) == m.channels = 3

BGR2GRAY(m) == [channels |-> 1, data |-> [p \in DOMAIN m.data |-> GrayOfPixel(m.data[p])]]

\* cv::absdiff of two 1-channel images of the same size
AbsDiff(a, b) ==
    [channels |-> 1, data |-> [p \in DOMAIN a.data |-> Abs(a.data[p] - b.data[p])]]

\* Faulty variant: THRESH_BINARY_INV in place of THRESH_BINARY
ThresholdInv(m, T) ==
    [channels |-> 1, data |-> [p \in DOMAIN m.data |-> IF m.data[p] > T THEN 0 ELSE 255]]

\* Faulty variant: a maximum value of 128 in place of 255
ThresholdHalf(m, T) ==
    [channels |-> 1, data |-> [p \in DOMAIN m.data |-> IF m.data[p] > T THEN 128 ELSE 0]]

\* cv::threshold(src, dst, T, 255, cv::THRESH_BINARY): 255 where src > T, else 0
Threshold(m, T) ==
    [channels |-> 1, data |-> [p \in DOMAIN m.data |-> IF m.data[p] > T THEN 255 ELSE 0]]

\* cv::borderInterpolate(p, len, BORDER_REFLECT_101), the default border of cv::blur
RECURSIVE Reflect101(_, _)
Reflect101(p, len) ==
    IF len = 1 THEN 0
    ELSE IF p < 0 THEN Reflect101(-p, len)
    ELSE IF p >= len THEN Reflect101(2 * (len - 1) - p, len)
    ELSE p

RECURSIVE SumOver(_, _)
SumOver(f, S) ==
    IF S = {} THEN 0
    ELSE LET e == CHOOSE x \in S : TRUE IN f[e] + SumOver(f, S \ {e})

\* cvRound(num / den): to the nearest integer, a tie to the even one
RoundDiv(num, den) ==
    LET q == (2 * num + den) \div (2 * den)
        tie == (2 * num + den) % (2 * den) = 0
    IN IF tie /\ q % 2 = 1 THEN q - 1 ELSE q

\* cv::blur(src, dst, ksize): the normalised box filter, kernel anchored at
\* its centre (ksize / 2), borders reflected.
Blur(m, ksize) ==
    LET win == (0 .. ksize.width - 1) \X (0 .. ksize.height - 1)
        src(p, d) == <<Reflect101(p[1] + d[1] - ksize.width \div 2, Width),
                       Reflect101(p[2] + d[2] - ksize.height \div 2, Height)>>
        vals == {m.data[q] : q \in Pix}
        \* the window's sum, value by value
        sum(p) == SumOver([v \in vals |->
                             v * Cardinality({d \in win : m.data[src(p, d)] = v})], vals)
    IN [channels |-> 1,
        data |-> [p \in Pix |-> RoundDiv(sum(p), ksize.width * ksize.height)]]

Foreground(m) == {p \in DOMAIN m.data : m.data[p] # 0}

AllZero(m) ==
    /\ m.channels # 0
    /\ \A p \in DOMAIN m.data : m.data[p] = (IF m.channels = 3 THEN Black ELSE 0)

-----------------------------------------------------------------------------
(***************************************************************************)
(* DifferenceDetector2D.                                                   *)
(***************************************************************************)

\* The values of difference_intensity_threshold the model starts from (the
\* constructor does not set it), configures and tunes to.
ThresholdValues == {0, 20, 200}

\* The values of the configuration keys: <<v>> for key = v, <<>> when the
\* table lacks the key.
ConfigBlur == {<<>>, <<-1>>, <<0>>, <<3>>}
ConfigThreshold == {<<>>, <<-1>>, <<256>>, <<300>>}
ConfigTune == {<<>>, <<TRUE>>}

\* What cpptoml::parse_file(config_file) yields: a parse_exception, a file
\* without a table named config_key, or the table.
Configs ==
    {[kind |-> "unparsable"], [kind |-> "no_table"]} \cup
    [kind : {"table"}, blur : ConfigBlur, diff_threshold : ConfigThreshold,
     tune : ConfigTune]

NoConfig == [kind |-> "none"]

\* void set_blur_size(int value): a value <= 0 switches the blur off and
\* leaves blur_size as it was.
set_blur_size(value, on, size) ==
    IF value > 0
    THEN [blur_on |-> TRUE, blur_size |-> [width |-> value, height |-> value]]
    ELSE [blur_on |-> FALSE, blur_size |-> size]

\* The constructor: flags cleared, then set_blur_size(2).  blur_size is a
\* default-constructed cv::Size (0, 0) before that call.
ConstructedBlur == set_blur_size(2, FALSE, [width |-> 0, height |-> 0])

\* Faulty variant: a configure that takes any file and changes nothing
configure_Lenient(cfg, d) == d

\* configure(config_file, config_key) on the detector in state d (a record
\* of the fields it touches): the fields afterwards and the exception it
\* leaves by, "none" when it returns.
configure(cfg, d) ==
    IF cfg.kind = "unparsable" THEN [d EXCEPT !.thrown = "parse_exception"]
    ELSE IF cfg.kind = "no_table" THEN [d EXCEPT !.thrown = "runtime_error"]
    ELSE
      LET b == IF cfg.blur = <<>>
               THEN [blur_on |-> d.blur_on, blur_size |-> d.blur_size]
               ELSE set_blur_size(cfg.blur[1], d.blur_on, d.blur_size)
          d1 == [d EXCEPT !.blur_on = b.blur_on, !.blur_size = b.blur_size]
          blurBad == cfg.blur # <<>> /\ b.blur_size.height < 0
          d2 == IF cfg.diff_threshold = <<>> THEN d1
                ELSE [d1 EXCEPT !.difference_intensity_threshold = cfg.diff_threshold[1]]
          thrBad == cfg.diff_threshold # <<>> /\ d2.difference_intensity_threshold < 0
          d3 == IF cfg.tune = <<TRUE>>
                THEN [d2 EXCEPT !.tuning_on = TRUE, !.tuning_windows_created = TRUE]
                ELSE d2
      IN IF blurBad THEN [d1 EXCEPT !.thrown = "runtime_error"]
         ELSE IF thrBad THEN [d2 EXCEPT !.thrown = "runtime_error"]
         ELSE d3

\* applyThreshold, the branch with a history frame: absdiff, threshold,
\* blur when blur_on, threshold again.
FinalMask(gray, last, T, on, size) ==
    LET t1 == Threshold(AbsDiff(gray, last), T)
        b  == IF on THEN Blur(t1, size) ELSE t1
    IN Threshold(b, T)

\* applyThreshold, the branch without a history frame: threshold_image is
\* the grayscale of the frame itself.
FirstMask(f) == BGR2GRAY(f)

\* Faulty variant: a history frame that is never filled in
HistoryBlank(f) == [channels |-> 1, data |-> [p \in DOMAIN f.data |-> 0]]

\* Faulty variant: the history frame kept without the conversion
HistoryColour(f) == f

\* The history frame applyThreshold keeps: the grayscale of the frame
\* (last_image = this_image.clone() after, or followed by, the conversion).
History(f) == BGR2GRAY(f)

\* applyThreshold() on this_image = f.  cvtColor throws on a frame that is
\* not 3-channel: with a history frame nothing has been written by then,
\* without one threshold_image already holds the clone of the frame.
applyThreshold(f, d) ==
    IF d.last_image_set
    THEN IF ~CanConvert(f) THEN [d EXCEPT !.thrown = "cv::Exception"]
         ELSE [d EXCEPT !.threshold_image =
                            FinalMask(BGR2GRAY(f), d.last_image,
                                      d.difference_intensity_threshold,
                                      d.blur_on, d.blur_size),
                        !.last_image = History(f)]
    ELSE IF ~CanConvert(f)
         THEN [d EXCEPT !.threshold_image = f, !.thrown = "cv::Exception"]
         ELSE [d EXCEPT !.threshold_image = FirstMask(f),
                        !.last_image = History(f),
                        !.last_image_set = TRUE]

\* Connected components of the foreground (8-connectivity), the objects
\* whose outer borders cv::findContours(..., RETR_EXTERNAL, ...) follows.
Adjacent(p, q) == p # q /\ Abs(p[1] - q[1]) <= 1 /\ Abs(p[2] - q[2]) <= 1

RECURSIVE Grow(_, _)
Grow(S, fg) ==
    LET N == S \cup {q \in fg : \E p \in S : Adjacent(p, q)}
    IN IF N = S THEN S ELSE Grow(N, fg)

\* p is met no later than q by the raster scan: rows top to bottom, each
\* row left to right.
RasterOrder(p, q) == p[2] < q[2] \/ (p[2] = q[2] /\ p[1] <= q[1])

FirstPixel(S) == CHOOSE p \in S : \A q \in S : RasterOrder(p, q)

\* The components in the order the raster scan meets them.
RECURSIVE Discover(_)
Discover(fg) ==
    IF fg = {} THEN <<>>
    ELSE LET c == Grow({FirstPixel(fg)}, fg) IN <<c>> \o Discover(fg \ c)

Reverse(s) == [i \in 1 .. Len(s) |-> s[Len(s) + 1 - i]]

\* The contours vector findContours fills: each contour found is linked in
\* front of those found before, so the vector runs from the contour met
\* last by the raster scan to the one met first.
Contours(mask) == Reverse(Discover(Foreground(mask)))

\* cv::boundingRect of a contour
BoundingRect(c) ==
    LET xs == {p[1] : p \in c}
        ys == {p[2] : p \in c}
        minx == CHOOSE x \in xs : \A z \in xs : x <= z
        maxx == CHOOSE x \in xs : \A z \in xs : x >= z
        miny == CHOOSE y \in ys : \A z \in ys : y <= z
        maxy == CHOOSE y \in ys : \A z \in ys : y >= z
    IN [x |-> minx, y |-> miny, width |-> maxx - minx + 1, height |-> maxy - miny + 1]

\* Faulty variant: siftBlobs taking the contour of the largest area
siftBlobs_Largest(d) ==
    LET contours == Contours(d.threshold_image)
    IN IF Len(contours) > 0
       THEN LET i == CHOOSE i \in 1 .. Len(contours) :
                        \A j \in 1 .. Len(contours) :
                           Cardinality(contours[i]) >= Cardinality(contours[j])
                r == BoundingRect(contours[i])
            IN [d EXCEPT !.object_position =
                   [position_valid |-> TRUE,
                    position |-> <<2 * r.x + r.width, 2 * r.y + r.height>>]]
       ELSE [d EXCEPT !.object_position.position_valid = FALSE]

\* siftBlobs(): valid iff there is a contour; the position is the centre of
\* the bounding rectangle of contours.at(contours.size() - 1), kept in half
\* pixels (x + 0.5 * width is (2x + width) / 2); with no contour x and y
\* keep what they held.
siftBlobs(d) ==
    LET contours == Contours(d.threshold_image)
    IN IF Len(contours) > 0
       THEN LET r == BoundingRect(contours[Len(contours)])
            IN [d EXCEPT !.object_position =
                   [position_valid |-> TRUE,
                    position |-> <<2 * r.x + r.width, 2 * r.y + r.height>>]]
       ELSE [d EXCEPT !.object_position.position_valid = FALSE]

\* tune(): shows threshold_image when tuning is on, creating the window
\* first if need be.  (With tuning on siftBlobs has painted the rectangle
\* and the text over threshold_image; only imshow reads the painted image
\* and the next applyThreshold replaces it, so the model keeps the mask.)
tune(d) ==
    IF d.tuning_on THEN [d EXCEPT !.tuning_windows_created = TRUE]
    ELSE IF d.tuning_windows_created THEN [d EXCEPT !.tuning_windows_created = FALSE]
    ELSE d

\* detectPosition(frame): applyThreshold, siftBlobs, tune; an exception
\* leaves at the call that raised it.
detectPosition(f, d) ==
    LET a == applyThreshold(f, d)
    IN IF a.thrown # "none" THEN a ELSE tune(siftBlobs(a))

\* The detector as the constructor leaves it, difference_intensity_threshold
\* holding T0; no frame has been handed to it.
Constructed(T0) ==
    /\ frame = EmptyMat
    /\ prev_frame = EmptyMat
    /\ last_image_set = FALSE
    /\ last_image = EmptyMat
    /\ threshold_image = EmptyMat
    /\ object_position = [position_valid |-> FALSE, position |-> <<0, 0>>]
    /\ difference_intensity_threshold = T0
    /\ blur_on = ConstructedBlur.blur_on
    /\ blur_size = ConstructedBlur.blur_size
    /\ tuning_on = FALSE
    /\ tuning_windows_created = FALSE

\* The variables of the other components while they are not running.
MaskIdle == other_threshold = 0 /\ other_mask = EmptyMat

BgIdle ==
    /\ bg_config = NoConfig
    /\ background_set = FALSE
    /\ background_img = EmptyMat
    /\ filtered = EmptyMat
    /\ first_frame = EmptyMat
    /\ first_unset = FALSE

MeanIdle ==
    /\ positional = 0
    /\ sink_given = FALSE
    /\ n_sources = 0
    /\ source_positions = <<>>
    /\ combined_position = [position_valid |-> FALSE, position |-> <<0, 0>>]

\* The detector's fields as one record, with the exception in flight.
Detector ==
    [thrown |-> thrown,
     last_image_set |-> last_image_set,
     last_image |-> last_image,
     threshold_image |-> threshold_image,
     object_position |-> object_position,
     difference_intensity_threshold |-> difference_intensity_threshold,
     blur_on |-> blur_on,
     blur_size |-> blur_size,
     tuning_on |-> tuning_on,
     tuning_windows_created |-> tuning_windows_created]

Becomes(d) ==
    /\ thrown' = d.thrown
    /\ last_image_set' = d.last_image_set
    /\ last_image' = d.last_image
    /\ threshold_image' = d.threshold_image
    /\ object_position' = d.object_position
    /\ difference_intensity_threshold' = d.difference_intensity_threshold
    /\ blur_on' = d.blur_on
    /\ blur_size' = d.blur_size
    /\ tuning_on' = d.tuning_on
    /\ tuning_windows_created' = d.tuning_windows_created

-----------------------------------------------------------------------------
(***************************************************************************)
(* The run loop: while (!quit && !source_eof) source_eof = stage->op();    *)
(* The two reads of the condition are separate steps (quit first, by       *)
(* short-circuit evaluation), and the per-iteration call is three steps,   *)
(* so that the signal handler can fire between any two of them.            *)
(***************************************************************************)

InitRun ==
    /\ stage \in Stages
    /\ pc = "main"
    /\ args = "ok"
    /\ constructed = TRUE
    /\ reported = FALSE
    /\ quit = 0
    /\ source_eof = 0
    /\ ret = FALSE
    /\ exit_code = <<>>
    /\ begun = 0
    /\ completed = 0
    /\ exhaustedAt = 0
    /\ quitAtEntry = 0
    /\ begunAfterQuit = 0
    /\ config_used = FALSE
    /\ config = NoConfig
    /\ thrown = "none"
    /\ Constructed(0)
    /\ MaskIdle /\ BgIdle /\ MeanIdle

\* void sigHandler(int s) { quit = 1; }   asynchronous, at any point of main
sigHandler ==
    /\ pc # "exited"
    /\ quit' = 1
    /\ UNCHANGED <<stage, pc, source_eof, ret, exit_code,
                   begun, completed, exhaustedAt, quitAtEntry, begunAfterQuit,
                   notRunVars>>

\* main calls run(stage)
EnterRun ==
    /\ pc = "main"
    /\ pc' = "while_quit"
    /\ quitAtEntry' = quit
    /\ UNCHANGED <<stage, quit, source_eof, ret, exit_code,
                   begun, completed, exhaustedAt, begunAfterQuit,
                   notRunVars>>

\* Faulty variant: a loop that never looks at quit
QuitClear_Ignored == TRUE

\* the loop condition's first operand: !quit
QuitClear == quit = 0

WhileQuit ==
    /\ pc = "while_quit"
    /\ pc' = IF QuitClear THEN "while_eof" ELSE "returned"
    /\ UNCHANGED <<stage, quit, source_eof, ret, exit_code,
                   begun, completed, exhaustedAt, quitAtEntry, begunAfterQuit,
                   notRunVars>>

\* Faulty variant: a loop that never looks at source_eof
EofClear_Ignored == TRUE

\* the loop condition's second operand: !source_eof
EofClear == source_eof = 0

WhileEof ==
    /\ pc = "while_eof"
    /\ pc' = IF EofClear THEN "acquire" ELSE "returned"
    /\ UNCHANGED <<stage, quit, source_eof, ret, exit_code,
                   begun, completed, exhaustedAt, quitAtEntry, begunAfterQuit,
                   notRunVars>>

\* The per-iteration operation begins: it acquires one unit from the source,
\* which reports exhaustion or not.
Acquire ==
    /\ pc = "acquire"
    /\ begun < MaxIter
    /\ \E eof \in BOOLEAN :
          /\ (begun + 1 >= MaxIter) => eof
          /\ ret' = eof
          /\ exhaustedAt' = IF eof /\ exhaustedAt = 0 THEN begun + 1 ELSE exhaustedAt
    /\ begun' = begun + 1
    /\ begunAfterQuit' = begunAfterQuit + quit
    /\ pc' = "transform"
    /\ UNCHANGED <<stage, quit, source_eof, exit_code, completed, quitAtEntry,
                   notRunVars>>

\* ... transforms it ...
Transform ==
    /\ pc = "transform"
    /\ pc' = "publish"
    /\ UNCHANGED <<stage, quit, source_eof, ret, exit_code,
                   begun, completed, exhaustedAt, quitAtEntry, begunAfterQuit,
                   notRunVars>>

\* ... publishes one unit to the sink and returns.
Publish ==
    /\ pc = "publish"
    /\ pc' = "assign"
    /\ UNCHANGED <<stage, quit, source_eof, ret, exit_code,
                   begun, completed, exhaustedAt, quitAtEntry, begunAfterQuit,
                   notRunVars>>

\* source_eof = <returned value>;
AssignEof ==
    /\ pc = "assign"
    /\ source_eof' = IF ret THEN 1 ELSE 0
    /\ completed' = completed + 1
    /\ pc' = "while_quit"
    /\ UNCHANGED <<stage, quit, ret, exit_code,
                   begun, exhaustedAt, quitAtEntry, begunAfterQuit,
                   notRunVars>>

\* run() has returned: main reports, frees the stage and returns 0
ExitClean ==
    /\ pc = "returned"
    /\ pc' = "exited"
    /\ exit_code' = <<0>>
    /\ UNCHANGED <<stage, quit, source_eof, ret,
                   begun, completed, exhaustedAt, quitAtEntry, begunAfterQuit,
                   notRunVars>>

NextRun ==
    \/ sigHandler
    \/ EnterRun
    \/ WhileQuit
    \/ WhileEof
    \/ Acquire
    \/ Transform
    \/ Publish
    \/ AssignEof
    \/ ExitClean

SpecRun == InitRun /\ [][NextRun]_vars

-----------------------------------------------------------------------------
(***************************************************************************)
(* posidet: main() from the construction of the detector on, with          *)
(* TYPE = diff, in a run that no signal interrupts.  Here one iteration of *)
(* the run loop is one step.                                               *)
(***************************************************************************)

\* The most frames the source of the detector delivers.
MaxCalls == 2

bookkeeping == <<begun, completed, exhaustedAt, quitAtEntry, begunAfterQuit>>

InitDet ==
    /\ stage = "posidet"
    /\ pc = "main"
    /\ args = "ok"
    /\ constructed = TRUE
    /\ reported = FALSE
    /\ quit = 0
    /\ source_eof = 0
    /\ ret = FALSE
    /\ exit_code = <<>>
    /\ begun = 0
    /\ completed = 0
    /\ exhaustedAt = 0
    /\ quitAtEntry = 0
    /\ begunAfterQuit = 0
    /\ config_used \in BOOLEAN
    /\ config \in (IF config_used THEN Configs ELSE {NoConfig})
    /\ thrown = "none"
    /\ \E T0 \in ThresholdValues : Constructed(T0)
    /\ MaskIdle /\ BgIdle /\ MeanIdle

\* try { if (config_used) detector->configure(config_file, config_key); ...
\* an exception leaves the try block for main's handlers.
MainConfigure ==
    /\ stage = "posidet"
    /\ pc = "main"
    /\ \E d \in {IF config_used THEN configure(config, Detector) ELSE Detector} :
          /\ Becomes(d)
          /\ pc' = IF d.thrown = "none" THEN "run" ELSE "handler"
    /\ UNCHANGED <<stage, quit, source_eof, ret, exit_code, bookkeeping,
                   cfgVars, otherVars, frame, prev_frame>>

\* run(): the loop condition fails and run returns
RunReturns ==
    /\ stage = "posidet"
    /\ pc = "run"
    /\ ~(QuitClear /\ EofClear)
    /\ pc' = "returned"
    /\ UNCHANGED <<stage, quit, source_eof, ret, exit_code, bookkeeping, notRunVars>>

\* run(): the loop condition holds; source_eof = detector->process(), which
\* takes a frame from the source, hands it to detectPosition and publishes
\* the position.  No handler stands between detectPosition and main, so an
\* exception ends run() without the assignment.  The source is exhausted
\* by its MaxCalls-th frame at the latest.
Iterate ==
    /\ stage = "posidet"
    /\ pc = "run"
    /\ QuitClear /\ EofClear
    /\ begun < MaxCalls
    /\ begun' = begun + 1
    /\ \E f \in Frames : \E d \in {detectPosition(f, Detector)} :
             /\ Becomes(d)
             /\ frame' = f
             /\ prev_frame' = frame
             /\ IF d.thrown = "none"
                THEN /\ \E eof \in BOOLEAN :
                          /\ (begun + 1 >= MaxCalls) => eof
                          /\ source_eof' = (IF eof THEN 1 ELSE 0)
                     /\ completed' = completed + 1
                     /\ pc' = "run"
                ELSE /\ source_eof' = source_eof
                     /\ completed' = completed
                     /\ pc' = "handler"
    /\ UNCHANGED <<stage, quit, ret, exit_code,
                   exhaustedAt, quitAtEntry, begunAfterQuit, cfgVars, otherVars>>

\* catch (...) { report }  delete detector;  return -1;
Handler ==
    /\ stage = "posidet"
    /\ pc = "handler"
    /\ reported' = TRUE
    /\ pc' = "exited"
    /\ exit_code' = <<-1>>
    /\ UNCHANGED <<stage, quit, source_eof, ret, bookkeeping,
                   args, constructed, config_used, config, thrown, detVars, otherVars>>

NextDet ==
    \/ MainConfigure
    \/ RunReturns
    \/ Iterate
    \/ Handler
    \/ ExitClean

SpecDet == InitDet /\ [][NextDet]_vars

-----------------------------------------------------------------------------
(***************************************************************************)
(* Properties of the run loop.                                             *)
(***************************************************************************)

\* C1: with no cancellation, the loop returns right after the first
\* per-iteration call that reports source exhaustion: no iteration begins
\* after the k-th acquisition reported exhaustion, and once run() has
\* returned with quit still clear exactly k iterations were begun and
\* completed, k being the index of that acquisition.
C1_ExhaustionEndsLoop ==
    /\ (exhaustedAt # 0) => (begun = exhaustedAt)
    /\ (pc \in {"returned", "exited"} /\ quit = 0) =>
          /\ exhaustedAt >= 1
          /\ begun = exhaustedAt
          /\ completed = exhaustedAt

\* C1 witness: a run without cancellation whose third acquisition was the
\* first to report exhaustion has returned after three iterations.
C1_Witness ==
    pc = "returned" /\ quit = 0 /\ exhaustedAt = 3 /\ completed = 3

\* C2: quit is consulted only at the loop condition: every iteration that
\* has begun can take its next step whatever quit is and none is abandoned,
\* at most one iteration begins after the flag is set, and a flag set
\* before run() is entered means no iteration at all.
C2_QuitOnlyBetweenIterations ==
    /\ (pc \in {"transform", "publish", "assign"}) =>
          (completed + 1 = begun /\ ENABLED (Transform \/ Publish \/ AssignEof))
    /\ (pc \in {"main", "while_quit", "while_eof", "acquire", "returned", "exited"}) =>
          (completed = begun)
    /\ begunAfterQuit <= 1
    /\ (quitAtEntry = 1) => (begun = 0)

\* C2 witness: the handler fired while the second iteration was in flight (or
\* just before it began), that iteration completed, and the loop then ended
\* without the source being exhausted.
C2_Witness ==
    /\ pc = "returned" /\ quit = 1 /\ source_eof = 0
    /\ begun = 2 /\ completed = 2 /\ begunAfterQuit = 1

-----------------------------------------------------------------------------
(***************************************************************************)
(* Properties of DifferenceDetector2D and of posidet.                      *)
(***************************************************************************)

\* C3: the first call of detectPosition on a fresh detector returns a
\* position with valid = false, whatever the frame and the settings.
C3_FirstCallInvalid ==
    (completed = 1 /\ thrown = "none") => ~object_position.position_valid

\* C4: a call of detectPosition with a frame bit-identical to the frame of
\* the call before it leaves an all-zero difference mask and returns
\* valid = false, for every threshold >= 1, with or without blur.
C4_IdenticalFramesInvalid ==
    (completed >= 2 /\ thrown = "none" /\ frame = prev_frame
        /\ difference_intensity_threshold >= 1) =>
       (AllZero(threshold_image) /\ ~object_position.position_valid)

\* C4 witness: the second call got the frame of the first, a frame with a
\* bright pixel, under a threshold >= 1 with the blur on.
C4_Witness ==
    /\ completed = 2 /\ thrown = "none" /\ frame = prev_frame
    /\ ~AllZero(frame)
    /\ difference_intensity_threshold >= 1
    /\ blur_on

NegativeBlur == config.kind = "table" /\ config.blur # <<>> /\ config.blur[1] < 0

NegativeThreshold ==
    config.kind = "table" /\ config.diff_threshold # <<>> /\ config.diff_threshold[1] < 0

\* C8: a negative blur and a negative diff_threshold are each fatal in
\* configure: it raises an error, the run loop is never entered and the
\* process exits with a failure status.
C8_NegativeIsFatal ==
    (config_used /\ (NegativeBlur \/ NegativeThreshold) /\ pc # "main") =>
       /\ thrown = "runtime_error"
       /\ pc \in {"handler", "exited"}
       /\ begun = 0
       /\ (pc = "exited" => exit_code = <<-1>>)

\* C10: an image operation failing during an iteration is caught within
\* that iteration: the position output and the history frame keep the
\* values they had before the tick and the loop goes on to the next
\* iteration.
C10_FailureKeepsLoopRunning ==
    [][(thrown = "none" /\ thrown' = "cv::Exception") =>
          /\ pc' = "run"
          /\ object_position' = object_position
          /\ last_image' = last_image
          /\ last_image_set' = last_image_set]_vars

-----------------------------------------------------------------------------
(***************************************************************************)
(* applyThreshold under two thresholds.  Two detectors that differ in      *)
(* difference_intensity_threshold only are handed the same two frames; the *)
(* first call leaves both with the same history frame, the second computes *)
(* each one's final mask.  The variables of the detector hold the one with *)
(* the lower threshold, other_threshold and other_mask the other one.      *)
(***************************************************************************)

\* The thresholds compared: below, at and above the differences and the
\* blurred values the frames produce.
ThresholdRange == {0, 28, 60, 128, 200, 255, 256}

\* The blur settings set_blur_size can leave, from the constructor's.
BlurValues == {0, 1, 2, 3}

BlurSettings == {set_blur_size(v, ConstructedBlur.blur_on, ConstructedBlur.blur_size) :
                    v \in BlurValues}

\* The detector after construction and set_blur_size, as a record.
ConstructedDetector(T0, b) ==
    [thrown |-> "none",
     last_image_set |-> FALSE,
     last_image |-> EmptyMat,
     threshold_image |-> EmptyMat,
     object_position |-> [position_valid |-> FALSE, position |-> <<0, 0>>],
     difference_intensity_threshold |-> T0,
     blur_on |-> b.blur_on,
     blur_size |-> b.blur_size,
     tuning_on |-> FALSE,
     tuning_windows_created |-> FALSE]

LoopIdle ==
    /\ quit = 0
    /\ source_eof = 0
    /\ ret = FALSE
    /\ exit_code = <<>>
    /\ exhaustedAt = 0
    /\ quitAtEntry = 0
    /\ begunAfterQuit = 0

\* Both detectors after their first call, on the same frame.
InitMask ==
    /\ stage = "posidet"
    /\ pc = "run"
    /\ args = "ok"
    /\ constructed = TRUE
    /\ reported = FALSE
    /\ LoopIdle
    /\ begun = 1
    /\ completed = 1
    /\ config_used = FALSE
    /\ config = NoConfig
    /\ \E f \in ColourFrames, b \in BlurSettings, T1 \in ThresholdRange :
          \E d \in {detectPosition(f, ConstructedDetector(T1, b))} :
             /\ thrown = d.thrown
             /\ last_image_set = d.last_image_set
             /\ last_image = d.last_image
             /\ threshold_image = d.threshold_image
             /\ object_position = d.object_position
             /\ difference_intensity_threshold = d.difference_intensity_threshold
             /\ blur_on = d.blur_on
             /\ blur_size = d.blur_size
             /\ tuning_on = d.tuning_on
             /\ tuning_windows_created = d.tuning_windows_created
             /\ frame = f
             /\ prev_frame = EmptyMat
             /\ other_mask = d.threshold_image
    /\ other_threshold \in {T2 \in ThresholdRange : T2 >= difference_intensity_threshold}
    /\ BgIdle /\ MeanIdle

\* The second call of detectPosition, on both detectors.
SecondCall ==
    /\ pc = "run"
    /\ begun = 1
    /\ \E f \in ColourFrames :
          \E d \in {detectPosition(f, Detector)} :
             /\ Becomes(d)
             /\ other_mask' =
                   applyThreshold(f, [Detector EXCEPT
                        !.difference_intensity_threshold = other_threshold]).threshold_image
             /\ frame' = f
             /\ prev_frame' = frame
    /\ begun' = 2
    /\ completed' = 2
    /\ UNCHANGED <<stage, pc, quit, source_eof, ret, exit_code,
                   exhaustedAt, quitAtEntry, begunAfterQuit,
                   cfgVars, other_threshold, bgVars, meanVars>>

NextMask == SecondCall

SpecMask == InitMask /\ [][NextMask]_vars

\* C5: for one pair (history frame, current frame) and one blur setting,
\* the foreground of the final mask of applyThreshold does not grow with the
\* threshold: at thresholds T1 <= T2 the foreground at T2 is a subset of the
\* foreground at T1.
C5_MaskShrinksWithThreshold ==
    (completed = 2 /\ difference_intensity_threshold <= other_threshold) =>
       Foreground(other_mask) \subseteq Foreground(threshold_image)

\* C5 witness: with the blur on, the higher threshold keeps some of the
\* foreground of the lower one and loses some.
C5_Witness ==
    /\ completed = 2
    /\ blur_on /\ blur_size.width >= 2
    /\ difference_intensity_threshold < other_threshold
    /\ Foreground(other_mask) # {}
    /\ Foreground(other_mask) # Foreground(threshold_image)
    /\ Foreground(other_mask) \subseteq Foreground(threshold_image)

-----------------------------------------------------------------------------
(***************************************************************************)
(* BackgroundSubtractor: configure, then filter on each frame.             *)
(***************************************************************************)

\* What cv::imread does with the path configure hands it:
\*   "image"    a readable image of the frames' size,
\*   "small"    a readable image of another size,
\*   "empty"    no such file or not an image: an empty Mat, no exception,
\*   "throws"   the decoder raises cv::Exception.
\* A table without the `background` key makes the path "", which imread
\* answers with an empty Mat.
ImreadOutcomes == {"image", "small", "empty", "throws"}

BgConfigs ==
    {[kind |-> "unparsable"], [kind |-> "no_table"]} \cup
    {[kind |-> "table", background |-> <<>>]} \cup
    {[kind |-> "table", background |-> <<o>>] : o \in ImreadOutcomes}

\* The Mat imread returns
StoredImage == FlatFrame(Grey)

SmallImage == [channels |-> 3, data |-> [p \in {<<0, 0>>} |-> Grey]]

Imread(cfg) ==
    IF cfg.background = <<>> THEN EmptyMat
    ELSE IF cfg.background[1] = "image" THEN StoredImage
    ELSE IF cfg.background[1] = "small" THEN SmallImage
    ELSE EmptyMat

\* Faulty variant: a subtraction that wraps around modulo 256
SubtractWrapping(a, b) ==
    IF a.channels = 3
    THEN [channels |-> 3,
          data |-> [p \in DOMAIN a.data |->
                      [c \in 1..3 |-> (a.data[p][c] - b.data[p][c]) % 256]]]
    ELSE [channels |-> 1,
          data |-> [p \in DOMAIN a.data |-> (a.data[p] - b.data[p]) % 256]]

\* frame - background_img on 8-bit Mats of one size and type: per channel,
\* saturated at 0.
Subtract(a, b) ==
    IF a.channels = 3
    THEN [channels |-> 3,
          data |-> [p \in Pix |->
                      [c \in 1..3 |-> IF a.data[p][c] > b.data[p][c]
                                        THEN a.data[p][c] - b.data[p][c] ELSE 0]]]
    ELSE [channels |-> 1,
          data |-> [p \in Pix |-> IF a.data[p] > b.data[p]
                                    THEN a.data[p] - b.data[p] ELSE 0]]

\* Faulty variant: setBackgroundImage keeping no copy of the frame
setBackgroundImage_NoCopy(f) == EmptyMat

\* setBackgroundImage(frame): background_img = frame.clone()
setBackgroundImage(f) == f

\* Faulty variant: a failed subtraction that leaves the frame empty
PassThrough_Empty(f) == EmptyMat

\* catch (cv::Exception& e) { report }: the assignment to frame did not
\* happen, filter returns the frame as it came.
PassThrough(f) == f

\* Faulty variant: background_img = frame, a second header on the caller's pixels
SharesPixels_NoClone == TRUE

\* Whether background_img shares its pixels with the caller's frame, which
\* filter overwrites in place: never, setBackgroundImage stores frame.clone()
\* and cv::imread returns a Mat of its own.
SharesPixels == FALSE

\* cv::subtract raises cv::Exception unless the operands agree in size and type
CanSubtract(a, b) ==
    a.channels # 0 /\ a.channels = b.channels /\ DOMAIN a.data = DOMAIN b.data

InitBg ==
    /\ stage = "framefilt"
    /\ pc = "main"
    /\ args = "ok"
    /\ constructed = TRUE
    /\ reported = FALSE
    /\ LoopIdle
    /\ begun = 0
    /\ completed = 0
    /\ config_used = FALSE
    /\ config = NoConfig
    /\ thrown = "none"
    /\ Constructed(0)
    /\ MaskIdle /\ MeanIdle
    /\ bg_config \in BgConfigs \cup {NoConfig}
    /\ background_set = FALSE
    /\ background_img = EmptyMat
    /\ filtered = EmptyMat
    /\ first_frame = EmptyMat
    /\ first_unset = FALSE

\* BackgroundSubtractor::configure (not called when no configuration file is
\* given).  A parse failure is reported and leaves an empty table; without
\* the table the process exits; with it the image is read and background_set
\* is set unless imread raised.
BgConfigure ==
    /\ stage = "framefilt"
    /\ pc = "main"
    /\ IF bg_config.kind = "none"
       THEN /\ pc' = "run"
            /\ UNCHANGED <<exit_code, reported, background_set, background_img>>
       ELSE IF bg_config.kind \in {"unparsable", "no_table"}
       THEN /\ reported' = TRUE
            /\ pc' = "exited"
            /\ exit_code' = <<1>>
            /\ UNCHANGED <<background_set, background_img>>
       ELSE IF bg_config.background = <<"throws">>
       THEN /\ reported' = TRUE
            /\ pc' = "run"
            /\ background_set' = FALSE
            /\ UNCHANGED <<exit_code, background_img>>
       ELSE /\ pc' = "run"
            /\ background_img' = Imread(bg_config)
            /\ background_set' = TRUE
            /\ UNCHANGED <<exit_code, reported>>
    /\ UNCHANGED <<stage, quit, source_eof, ret, bookkeeping,
                   args, constructed, config_used, config, thrown, detVars,
                   maskVars, meanVars, bg_config, filtered, first_frame, first_unset>>

\* cv::Mat BackgroundSubtractor::filter(cv::Mat& frame)
BgFilter ==
    /\ stage = "framefilt"
    /\ pc = "run"
    /\ begun < MaxCalls + 1
    /\ \E f \in Frames :
          /\ frame' = f
          /\ prev_frame' = frame
          /\ IF background_set
             THEN /\ filtered' = IF CanSubtract(f, background_img)
                                 THEN Subtract(f, background_img) ELSE PassThrough(f)
                  /\ background_img' = IF SharesPixels /\ CanSubtract(f, background_img)
                                       THEN Subtract(f, background_img)
                                       ELSE background_img
                  /\ UNCHANGED background_set
             ELSE /\ background_img' = setBackgroundImage(f)
                  /\ background_set' = TRUE
                  /\ filtered' = f
          /\ first_frame' = IF begun = 0 THEN f ELSE first_frame
    /\ first_unset' = IF begun = 0 THEN ~background_set ELSE first_unset
    /\ begun' = begun + 1
    /\ completed' = completed + 1
    /\ UNCHANGED <<stage, pc, quit, source_eof, ret, exit_code,
                   exhaustedAt, quitAtEntry, begunAfterQuit, cfgVars, thrown,
                   last_image_set, last_image, threshold_image, object_position,
                   difference_intensity_threshold, blur_on, blur_size,
                   tuning_on, tuning_windows_created,
                   maskVars, meanVars, bg_config>>

NextBg == BgConfigure \/ BgFilter

SpecBg == InitBg /\ [][NextBg]_vars

\* C6: with no background set, the first frame passed to filter is returned
\* unchanged and becomes the stored background; every later call of filter
\* with a frame identical to that first frame returns an all-zero frame.
C6_FirstFrameBecomesBackground ==
    (begun >= 1 /\ first_unset) =>
       /\ background_set
       /\ background_img = first_frame
       /\ (begun = 1 => filtered = first_frame)
       /\ (begun >= 2 /\ frame = first_frame) => AllZero(filtered)

\* C6 witness: a first frame with bright pixels came while no background was
\* set, another frame came next, and the third is the first one again.
C6_Witness ==
    /\ begun = 3 /\ first_unset
    /\ frame = first_frame /\ prev_frame # first_frame
    /\ ~AllZero(frame)
    /\ AllZero(filtered)

BackgroundLoadFailed ==
    /\ bg_config.kind = "table"
    /\ bg_config.background \in {<<>>, <<"empty">>, <<"throws">>}

\* C9: when configure finds the table but loading the background image
\* fails (no `background` key, unreadable path, decode failure; by exception
\* or by an empty image), startup is not aborted and the filter is left
\* with no background set, so that the first frame passed to filter becomes
\* the background.
C9_LoadFailureFallsBack ==
    (BackgroundLoadFailed /\ pc # "main") =>
       /\ pc = "run"
       /\ (begun = 0 => ~background_set)
       /\ (begun >= 1 => (background_set /\ background_img = first_frame))

-----------------------------------------------------------------------------
(***************************************************************************)
(* posicom: the SOURCES of the command line and MeanPosition.  main.cpp    *)
(* builds MeanPosition(sources, sink); the combiner itself is modelled     *)
(* from its specification: the mean over the valid inputs.                 *)
(***************************************************************************)

\* The most positional SOURCES arguments a command line of the model has.
MaxPositional == 4

\* Coordinates are multiples of 60, so that a mean over up to six inputs is
\* a whole number.
Coordinates == {60, 120}

Positions ==
    {[position_valid |-> v, position |-> <<x, y>>] :
        v \in BOOLEAN, x \in Coordinates, y \in Coordinates}

InitMean ==
    /\ stage = "posicom"
    /\ pc = "main"
    /\ args = "ok"
    /\ constructed = TRUE
    /\ reported = FALSE
    /\ LoopIdle
    /\ begun = 0
    /\ completed = 0
    /\ config_used = FALSE
    /\ config = NoConfig
    /\ thrown = "none"
    /\ Constructed(0)
    /\ MaskIdle /\ BgIdle
    /\ positional \in 0 .. MaxPositional
    /\ sink_given \in BOOLEAN
    /\ n_sources = 0
    /\ source_positions = <<>>
    /\ combined_position = [position_valid |-> FALSE, position |-> <<0, 0>>]

\* main(): fewer than three positional SOURCES end the process with -1;
\* without --sink the last of them is the sink.
ParseSources ==
    /\ pc = "main"
    /\ IF positional < 3
       THEN /\ pc' = "exited"
            /\ exit_code' = <<-1>>
            /\ UNCHANGED n_sources
       ELSE /\ pc' = "run"
            /\ n_sources' = IF sink_given THEN positional ELSE positional - 1
            /\ UNCHANGED exit_code
    /\ UNCHANGED <<stage, quit, source_eof, ret, bookkeeping, cfgVars, thrown, detVars,
                   maskVars, bgVars, positional, sink_given,
                   source_positions, combined_position>>

RECURSIVE SumOf(_, _, _)
SumOf(ps, S, c) ==
    IF S = {} THEN 0
    ELSE LET i == CHOOSE i \in S : TRUE
         IN ps[i].position[c] + SumOf(ps, S \ {i}, c)

ValidSources(ps) == {i \in DOMAIN ps : ps[i].position_valid}

\* Faulty variant: the sum over the valid inputs divided by the number of sources
MeanOverAll(ps) ==
    LET V == ValidSources(ps)
    IN IF V = {} THEN [position_valid |-> FALSE, position |-> <<0, 0>>]
       ELSE [position_valid |-> TRUE,
             position |-> <<SumOf(ps, V, 1) \div Len(ps), SumOf(ps, V, 2) \div Len(ps)>>]

\* The combined position: the mean of the coordinates of the valid inputs,
\* valid = false when there is none.
MeanPosition(ps) ==
    LET V == ValidSources(ps)
    IN IF V = {} THEN [position_valid |-> FALSE, position |-> <<0, 0>>]
       ELSE [position_valid |-> TRUE,
             position |-> <<SumOf(ps, V, 1) \div Cardinality(V),
                            SumOf(ps, V, 2) \div Cardinality(V)>>]

\* MeanPosition::process(): one position from each source, one published.
Combine ==
    /\ pc = "run"
    /\ begun = 0
    /\ \E ps \in [1 .. n_sources -> Positions] :
          /\ source_positions' = ps
          /\ combined_position' = MeanPosition(ps)
    /\ begun' = 1
    /\ completed' = 1
    /\ UNCHANGED <<stage, pc, quit, source_eof, ret, exit_code,
                   exhaustedAt, quitAtEntry, begunAfterQuit, cfgVars, thrown, detVars,
                   maskVars, bgVars, positional, sink_given, n_sources>>

NextMean == ParseSources \/ Combine

SpecMean == InitMean /\ [][NextMean]_vars

-----------------------------------------------------------------------------
(***************************************************************************)
(* Start-up of the configured stages: posidet with DifferenceDetector2D    *)
(* and the frame filter with BackgroundSubtractor, side by side.           *)
(***************************************************************************)

InitCfg == InitDet \/ InitBg

NextCfg == NextDet \/ NextBg

SpecCfg == InitCfg /\ [][NextCfg]_vars

\* The configuration file was given and cannot be parsed or holds no table
\* under the key.
NoSettingsTable ==
    \/ stage = "posidet" /\ config_used /\ config.kind \in {"unparsable", "no_table"}
    \/ stage = "framefilt" /\ bg_config.kind \in {"unparsable", "no_table"}

\* C11: with a configuration file that is unparsable or holds no table
\* under the key, the stage (DifferenceDetector2D, BackgroundSubtractor)
\* reports the error and the process ends with a failure status before the
\* first iteration of the run loop: no frame is acquired or published.
C11_MissingTableIsFatal ==
    (NoSettingsTable /\ pc # "main") =>
       /\ pc \in {"handler", "exited"}
       /\ (pc = "handler") => ENABLED Handler
       /\ (pc = "exited") => (reported /\ exit_code \in {<<-1>>, <<1>>})
       /\ begun = 0 /\ completed = 0
       /\ frame = EmptyMat /\ filtered = EmptyMat
       /\ ~last_image_set /\ ~background_set

\* C11 witness: the frame filter, given a file that does not parse, has
\* exited with EXIT_FAILURE.
C11_Witness ==
    /\ stage = "framefilt" /\ bg_config.kind = "unparsable"
    /\ pc = "exited" /\ exit_code = <<1>> /\ reported

\* The same for posidet: the parse exception has reached main's handler and
\* main has returned -1.
C11_WitnessDetector ==
    /\ stage = "posidet" /\ config_used /\ config.kind = "unparsable"
    /\ pc = "exited" /\ exit_code = <<-1>> /\ reported /\ thrown = "parse_exception"

-----------------------------------------------------------------------------
(***************************************************************************)
(* main() of the three executables from its first line: the command line   *)
(* is parsed and checked, the stage is constructed, the run loop runs.     *)
(* args names the first check of main the command line fails, "ok" when it *)
(* passes them all; "std_exception" and "other_exception" are an exception *)
(* leaving the parsing block, derived from std::exception or not.          *)
(***************************************************************************)

ArgsOf(st) ==
    IF st = "posidet"
    THEN {"ok", "help", "version", "no_type", "no_source", "no_sink",
          "config_file_only", "config_key_only", "bad_type",
          "std_exception", "other_exception"}
    ELSE IF st = "posicom"
    THEN {"ok", "help", "version", "no_type", "no_sources", "few_sources",
          "config_file_only", "config_key_only", "bad_type",
          "std_exception", "other_exception"}
    ELSE {"ok", "help", "version", "no_source", "no_sink",
          "std_exception", "other_exception"}

InitArgs ==
    /\ stage \in Stages
    /\ pc = "args"
    /\ args \in ArgsOf(stage)
    /\ constructed = FALSE
    /\ reported = FALSE
    /\ LoopIdle
    /\ begun = 0
    /\ completed = 0
    /\ config_used = FALSE
    /\ config = NoConfig
    /\ thrown = "none"
    /\ Constructed(0)
    /\ MaskIdle /\ BgIdle /\ MeanIdle

\* The value main returns from its argument block, <<>> when it goes on to
\* construct the stage.  --help and --version print and return 0; a failed
\* check prints and returns -1; the handlers of posidet and posicom return
\* -1; those of decorate return 1 for a std::exception and, for any other
\* exception, print and fall out of the handler.
ArgsReturn(st, a) ==
    IF a = "ok" THEN <<>>
    ELSE IF a \in {"help", "version"} THEN <<0>>
    ELSE IF st = "decorate" /\ a = "std_exception" THEN <<1>>
    ELSE IF st = "decorate" /\ a = "other_exception" THEN <<>>
    ELSE <<-1>>

ParseArgs ==
    /\ pc = "args"
    /\ reported' = (args \notin {"ok", "help", "version"})
    /\ exit_code' = ArgsReturn(stage, args)
    /\ constructed' = (ArgsReturn(stage, args) = <<>>)
    /\ pc' = IF ArgsReturn(stage, args) = <<>> THEN "main" ELSE "exited"
    /\ UNCHANGED <<stage, quit, source_eof, ret, bookkeeping,
                   args, config_used, config, thrown, detVars, otherVars>>

NextArgs == ParseArgs \/ NextRun

SpecArgs == InitArgs /\ [][NextArgs]_vars

ArgErrors ==
    {"no_type", "no_source", "no_sink", "no_sources", "few_sources",
     "config_file_only", "config_key_only", "bad_type",
     "std_exception", "other_exception"}

\* C12: each executable (posidet, posicom, decorate) exits with code 0
\* after a clean shutdown of its run loop, by exhaustion or cancellation,
\* and on every argument error (missing TYPE/SOURCE/SINK, unknown TYPE,
\* config-file without config-key or the reverse, any exception raised
\* while the arguments are parsed) it exits with a non-zero code without
\* constructing a stage or entering the run loop.
C12_ExitCodes ==
    /\ (pc = "exited" /\ args = "ok") => exit_code = <<0>>
    /\ (args \in ArgErrors /\ pc # "args") =>
          /\ pc = "exited"
          /\ exit_code # <<0>>
          /\ ~constructed
          /\ begun = 0

-----------------------------------------------------------------------------
(***************************************************************************)
(* siftBlobs on scenes with several blobs.  The detector is configured     *)
(* with diff_threshold = 20 and blur = 0 and has seen a flat background;   *)
(* the second frame holds the blobs.  The scenes are a strip of BlobWidth  *)
(* x BlobHeight pixels, each pixel black or grey, and a field of 50 x 50   *)
(* black pixels with one block of 10 x 10 pixels of intensity 50 at        *)
(* (40, 40).                                                               *)
(***************************************************************************)

BlobWidth == 4
BlobHeight == 2

BlobPix == (0 .. BlobWidth - 1) \X (0 .. BlobHeight - 1)

BlobBackground == [channels |-> 3, data |-> [p \in BlobPix |-> Black]]

BlobFrames ==
    {[channels |-> 3, data |-> [p \in BlobPix |-> IF p \in S THEN Grey ELSE Black]] :
        S \in SUBSET BlobPix}

FieldPix == (0 .. 49) \X (0 .. 49)

BlockPix == (40 .. 49) \X (40 .. 49)

FieldBackground == [channels |-> 3, data |-> [p \in FieldPix |-> Black]]

BlockFrame ==
    [channels |-> 3,
     data |-> [p \in FieldPix |-> IF p \in BlockPix THEN <<50, 50, 50>> ELSE Black]]

SiftConfig == [kind |-> "table", blur |-> <<0>>, diff_threshold |-> <<20>>, tune |-> <<>>]

\* The configured detector after its first call, on a background.
InitSift ==
    /\ stage = "posidet"
    /\ pc = "run"
    /\ args = "ok"
    /\ constructed = TRUE
    /\ reported = FALSE
    /\ LoopIdle
    /\ begun = 1
    /\ completed = 1
    /\ config_used = TRUE
    /\ config = SiftConfig
    /\ \E f \in {BlobBackground, FieldBackground} :
          \E d \in {detectPosition(f, configure(SiftConfig,
                                      ConstructedDetector(0, ConstructedBlur)))} :
             /\ thrown = d.thrown
             /\ last_image_set = d.last_image_set
             /\ last_image = d.last_image
             /\ threshold_image = d.threshold_image
             /\ object_position = d.object_position
             /\ difference_intensity_threshold = d.difference_intensity_threshold
             /\ blur_on = d.blur_on
             /\ blur_size = d.blur_size
             /\ tuning_on = d.tuning_on
             /\ tuning_windows_created = d.tuning_windows_created
             /\ frame = f
             /\ prev_frame = EmptyMat
    /\ MaskIdle /\ BgIdle /\ MeanIdle

\* The second call of detectPosition, on a frame of the scene.
SiftCall ==
    /\ pc = "run"
    /\ begun = 1
    /\ \E f \in (IF frame = FieldBackground THEN {BlockFrame} ELSE BlobFrames) :
          \E d \in {detectPosition(f, Detector)} :
             /\ Becomes(d)
             /\ frame' = f
             /\ prev_frame' = frame
    /\ begun' = 2
    /\ completed' = 2
    /\ UNCHANGED <<stage, pc, quit, source_eof, ret, exit_code,
                   exhaustedAt, quitAtEntry, begunAfterQuit, cfgVars, otherVars>>

NextSift == SiftCall

SpecSift == InitSift /\ [][NextSift]_vars

C13_BlockSceneDone ==
    /\ completed = 2 /\ frame = BlockFrame
    /\ object_position = [position_valid |-> TRUE, position |-> <<90, 90>>]

-----------------------------------------------------------------------------
(***************************************************************************)
(* Properties of BackgroundSubtractor::filter.                             *)
(***************************************************************************)

\* A background was set when the last call of filter began.
SetBefore == begun >= 2 \/ (begun = 1 /\ ~first_unset)

SameDimensions(a, b) == a.channels # 0 /\ b.channels # 0 /\ DOMAIN a.data = DOMAIN b.data

Clip(x) == IF x < 0 THEN 0 ELSE IF x > 255 THEN 255 ELSE x

\* Every value of out is the clipped difference of the values of f and b.
ClippedDifference(out, f, b) ==
    /\ out.channels = f.channels
    /\ f.channels = b.channels
    /\ DOMAIN out.data = DOMAIN f.data
    /\ \A p \in DOMAIN f.data :
          IF f.channels = 3
          THEN \A c \in 1..3 : out.data[p][c] = Clip(f.data[p][c] - b.data[p][c])
          ELSE out.data[p] = Clip(f.data[p] - b.data[p])

\* C14 as stated: when a background is set and has the dimensions of the
\* frame, every output pixel of filter is max(0, frame pixel - background
\* pixel) within 0..255.
C14_AsStated ==
    (SetBefore /\ SameDimensions(frame, background_img)) =>
       ClippedDifference(filtered, frame, background_img)

\* C14, amended: when a background is set and has the dimensions and the
\* number of channels of the frame, every output value of filter is
\* max(0, frame value - background value): clipped to 0..255, never wrapped
\* around or negative.
C14_SaturatingSubtraction ==
    (SetBefore /\ SameDimensions(frame, background_img)
        /\ frame.channels = background_img.channels) =>
       ClippedDifference(filtered, frame, background_img)

\* C14 witness: a frame darker than the background at one pixel and
\* brighter at another: the output is 0 at the first and positive at the
\* second.
C14_Witness ==
    /\ SetBefore
    /\ frame.channels = 3 /\ background_img.channels = 3
    /\ SameDimensions(frame, background_img)
    /\ \E p, q \in DOMAIN frame.data :
          /\ frame.data[p][1] < background_img.data[p][1]
          /\ filtered.data[p][1] = 0
          /\ frame.data[q][1] > background_img.data[q][1]
          /\ filtered.data[q][1] = frame.data[q][1] - background_img.data[q][1]

\* C15: once the background is set, by configuration or by the first
\* frame, no later call of filter changes the stored background image or
\* the background_set flag, whether the call overwrites the caller's frame
\* in place or its subtraction fails.
C15_BackgroundNeverUpdated ==
    [][background_set => (background_set' /\ background_img' = background_img)]_vars

\* C15 witness: the first frame became the background, the second call
\* overwrote its frame with the difference, the subtraction of the third
\* failed, and the background is still the first frame.
C15_Witness ==
    /\ begun = 3 /\ first_unset /\ background_set
    /\ background_img = first_frame
    /\ CanSubtract(prev_frame, background_img) /\ prev_frame # first_frame
    /\ ~CanSubtract(frame, background_img) /\ filtered = frame

-----------------------------------------------------------------------------
(***************************************************************************)
(* Properties of the detector's history and of the position it returns.    *)
(***************************************************************************)

\* C16: DifferenceDetector2D has two history states: it starts without a
\* history frame (last_image_set false), has one from its first
\* detectPosition call on and never loses it again; after every successful
\* detectPosition call, the first or a later one, the history frame is the
\* grayscale conversion of the frame of that call.
C16_HistoryStates ==
    /\ [](/\ (begun = 0) => (~last_image_set /\ last_image = EmptyMat)
          /\ (completed >= 1) => last_image_set
          /\ (completed >= 1 /\ thrown = "none") => last_image = BGR2GRAY(frame))
    /\ [][last_image_set => last_image_set']_vars

\* C16 witness: two calls on different frames; the history frame is the
\* grayscale of the second and no longer that of the first.
C16_Witness ==
    /\ completed = 2 /\ thrown = "none" /\ last_image_set
    /\ last_image = BGR2GRAY(frame)
    /\ last_image # BGR2GRAY(prev_frame)

\* C17: the Position2D detectPosition returns is made anew in each call and
\* nothing of it is kept from one iteration to the next: a call that finds
\* no contour (valid = false) does not return the coordinates computed by
\* the call before it.
C17_NoStaleCoordinates ==
    [][(/\ completed' = completed + 1
        /\ object_position.position_valid
        /\ ~object_position'.position_valid) =>
          object_position'.position # object_position.position]_vars

\* C18: when the subtraction in filter fails (the stored background is
\* empty or differs from the frame in size or type), the error is caught
\* inside filter, the frame is returned as it came, the stored background
\* stays as it was, and the same happens on every later call with such a
\* frame; the process does not terminate.
C18_FailedSubtractionPassesThrough ==
    /\ []((SetBefore /\ ~CanSubtract(frame, background_img)) =>
            /\ filtered = frame
            /\ thrown = "none"
            /\ pc = "run" /\ exit_code = <<>>
            /\ (begun < MaxCalls + 1) => ENABLED BgFilter)
    /\ [][(background_set /\ ~CanSubtract(frame', background_img)) =>
             (background_set' /\ background_img' = background_img)]_vars

\* C18 witness: against a configured background of another size, two
\* calls in a row have failed and passed their frames through.
C18_Witness ==
    /\ begun = 3 /\ background_set /\ background_img = SmallImage
    /\ frame # prev_frame
    /\ ~CanSubtract(frame, background_img)
    /\ ~CanSubtract(prev_frame, background_img)
    /\ filtered = frame
    /\ pc = "run"

\* C19: in every state of a DifferenceDetector2D after construction and
\* any accepted configure call, the intensity threshold T satisfies
\* 0 <= T <= 256 and, whenever blur is enabled, the blur kernel size B
\* satisfies 0 < B <= 50 with equal width and height.
C19_ParametersInRange ==
    (stage = "posidet" /\ pc = "run" /\ thrown = "none") =>
        /\ difference_intensity_threshold >= 0
        /\ difference_intensity_threshold <= 256
        /\ blur_on => /\ blur_size.height > 0 /\ blur_size.height <= 50
                      /\ blur_size.width = blur_size.height

\* The procedure as specified: threshold the difference, and only when
\* blur is enabled smooth the mask and threshold it again.
SpecifiedMask(gray, last, T, on, size) ==
    LET t1 == Threshold(AbsDiff(gray, last), T)
    IN IF on THEN Threshold(Blur(t1, size), T) ELSE t1

\* C20: applyThreshold thresholds a second time whether or not blur is
\* enabled, and its final mask still equals the mask of the specified
\* procedure, for every pair of frames and every threshold in 0..256:
\* with blur disabled the second threshold leaves the binary mask as it is.
C20_SecondThresholdHarmless ==
    (begun = 2 /\ thrown = "none") =>
        /\ threshold_image =
              SpecifiedMask(BGR2GRAY(frame), BGR2GRAY(prev_frame),
                            difference_intensity_threshold, blur_on, blur_size)
        /\ other_mask =
              SpecifiedMask(BGR2GRAY(frame), BGR2GRAY(prev_frame),
                            other_threshold, blur_on, blur_size)
        /\ ~blur_on =>
              threshold_image =
                 Threshold(AbsDiff(BGR2GRAY(frame), BGR2GRAY(prev_frame)),
                           difference_intensity_threshold)

\* C20 witness: with blur disabled and a threshold above zero, the second
\* call leaves a mask with foreground in it.
C20_Witness ==
    /\ begun = 2 /\ thrown = "none"
    /\ ~blur_on
    /\ difference_intensity_threshold = 200
    /\ Foreground(threshold_image) # {}
    /\ Foreground(threshold_image) # Pix

=============================================================================
